---- MODULE Spec2Model ----
(***************************************************************************)
(* Model of the api-backend service (src/main.py): a FastAPI application   *)
(* with two endpoints, /health and /version, logging to a console stream   *)
(* and a file, traced by the OpenTelemetry FastAPI instrumentation with a  *)
(* batching OTLP exporter, and wrapped in Starlette's CORS middleware.     *)
(*                                                                         *)
(* Text (log lines, the version string, JSON values) is a sequence of      *)
(* one-character strings, so that formatting and "contains" are computed.  *)
(***************************************************************************)
EXTENDS Naturals, Sequences, FiniteSets, TLC

\* ------------------------------------------------------------- bounds
\* Requests received over the whole run (they may all be in flight at once).
MaxRequests == 2
\* Capacity of the BatchSpanProcessor queue (the library default is 2048).
MaxQueueSize == 1

\* ------------------------------------------------------------- text
Dev == <<"d", "e", "v">>
V12 == <<"1", ".", "2">>
Ok == <<"o", "k">>
Info == <<"I", "N", "F", "O">>
HealthCalled == <<"/", "h", "e", "a", "l", "t", "h", " ", "c", "a", "l", "l", "e", "d">>
VersionCalled == <<"/", "v", "e", "r", "s", "i", "o", "n", " ", "c", "a", "l", "l", "e", "d">>
ServiceTag == <<" ", "[", "a", "p", "i", "-", "b", "a", "c", "k", "e", "n", "d", "]", " ">>
Digits == <<"0", "1", "2", "3", "4", "5", "6", "7", "8", "9">>

\* s occurs in t as a contiguous substring (Python's `s in t`).
Contains(t, s) ==
    \E i \in 0..Len(t) :
        /\ i + Len(s) <= Len(t)
        /\ \A k \in 1..Len(s) : t[i + k] = s[k]

RECURSIVE Concat(_)
Concat(parts) == IF parts = <<>> THEN <<>> ELSE Head(parts) \o Concat(Tail(parts))

\* ------------------------------------------------------------- environment
\* A value of the variable API_VERSION in the environment: unset, or set to a
\* string (possibly the empty one).
EnvValues ==
    { [set |-> FALSE, val |-> <<>>],
      [set |-> TRUE, val |-> <<>>],
      [set |-> TRUE, val |-> V12] }

\* os.getenv(name, default): the default only when the variable is unset.
getenv_empty_is_unset(e, default) == IF e.set /\ e.val # <<>> THEN e.val ELSE default
os_getenv(e, default) == IF e.set THEN e.val ELSE default

\* What is found at Path(__file__).parent / "logs" when the module runs, and
\* whether entries can be created there.
LogsPaths == {"absent", "dir", "file"}

\* log_dir.mkdir(exist_ok=True): succeeds on an existing directory, creates a
\* missing one when permitted, raises otherwise (also when "logs" is a file).
mkdir(path, canWrite) ==
    CASE path = "dir" -> [ok |-> TRUE, path |-> "dir"]
      [] path = "absent" /\ canWrite -> [ok |-> TRUE, path |-> "dir"]
      [] OTHER -> [ok |-> FALSE, path |-> path]

\* logging.FileHandler(log_file): opens the file for append at construction
\* and raises when it cannot.
FileHandler(canWrite) == canWrite

\* ------------------------------------------------------------- logging
\* logging.INFO, the threshold given to basicConfig, and the level of
\* logger.info; a handler created without a level has NOTSET.
INFO == 20
NOTSET == 0

\* The format string "%(asctime)s %(levelname)s [api-backend] %(message)s":
\* attribute references and literal text, in order.
LogFormat ==
    << [attr |-> "asctime", lit |-> <<>>],
       [attr |-> "", lit |-> <<" ">>],
       [attr |-> "levelname", lit |-> <<>>],
       [attr |-> "", lit |-> ServiceTag],
       [attr |-> "message", lit |-> <<>>] >>

\* The handlers basicConfig installs on the root logger, in order.
basicConfig_console_only == <<"console">>
basicConfig == <<"console", "file">>

\* %(asctime)s of a record created at time t.
asctime(t) == <<"0", "0", ":", "0", Digits[(t % 10) + 1]>>

\* The LogRecord of logger.info(msg, extra=extra) at time t: the standard
\* attributes, plus one attribute per key of `extra`.
makeRecord(t, msg, extra) ==
    extra @@ [asctime |-> asctime(t), levelname |-> Info, levelno |-> INFO, message |-> msg]

RECURSIVE FormatParts(_, _)
FormatParts(fmt, rec) ==
    IF fmt = <<>> THEN <<>>
    ELSE LET p == Head(fmt) IN
         <<IF p.attr = "" THEN p.lit ELSE rec[p.attr]>> \o FormatParts(Tail(fmt), rec)

\* Formatter.format: the format string with the record's attributes filled in.
format(rec) == Concat(FormatParts(LogFormat, rec))

\* ------------------------------------------------------------- handlers
\* health_check(): the body it returns.
health_check == [key |-> "status", val |-> Ok]

\* version(): the body it returns, from the module-level VERSION.
version_rereads_env(ver, env) == [key |-> "version", val |-> os_getenv(env, Dev)]
version(ver, env) == [key |-> "version", val |-> ver]

\* The message and `extra` each handler passes to logger.info.
log_args(target, ver) ==
    IF target = "health_check"
    THEN [msg |-> HealthCalled, extra |-> <<>>]
    ELSE [msg |-> VersionCalled, extra |-> [version |-> ver]]

\* ------------------------------------------------------------- CORS
\* The arguments of app.add_middleware(CORSMiddleware, ...).
allow_origins == {"*"}
allow_credentials_off == FALSE
allow_credentials == TRUE
allow_methods == {"*"}
allow_headers == {"*"}

\* CORSMiddleware.__init__: what the arguments are turned into.
ALL_METHODS == {"DELETE", "GET", "HEAD", "OPTIONS", "PATCH", "POST", "PUT"}
allow_all_origins == "*" \in allow_origins
preflight_explicit_allow_origin == ~allow_all_origins \/ allow_credentials
cors_methods == IF "*" \in allow_methods THEN ALL_METHODS ELSE allow_methods
is_allowed_origin(origin) == allow_all_origins \/ origin \in allow_origins

\* A request is a preflight when it is an OPTIONS request that carries
\* Access-Control-Request-Method (CORSMiddleware.__call__).
is_preflight(q) == q.method = "OPTIONS" /\ q.acrm # ""

OkText == <<"O", "K">>
Disallowed == <<"D", "i", "s", "a", "l", "l", "o", "w", "e", "d">>
NotFound == <<"N", "o", "t", " ", "F", "o", "u", "n", "d">>
NotAllowed == <<"N", "o", "t", " ", "A", "l", "l", "o", "w", "e", "d">>

\* CORSMiddleware.preflight_response: answered by the middleware itself.
preflight_response(q) ==
    LET originOk == is_allowed_origin(q.origin)
        failed == ~originOk \/ q.acrm \notin cors_methods
    IN  [status |-> IF failed THEN 400 ELSE 200,
         body |-> [key |-> "", val |-> IF failed THEN Disallowed ELSE OkText],
         acao |-> IF ~preflight_explicit_allow_origin THEN "*"
                  ELSE IF originOk THEN q.origin ELSE "",
         acac |-> allow_credentials]

\* CORSMiddleware.send: the headers added to the response of a request that
\* carries Origin and is no preflight.
simple_headers(q) ==
    [acao |-> IF allow_all_origins
              THEN (IF q.cookie THEN q.origin ELSE "*")
              ELSE IF is_allowed_origin(q.origin) THEN q.origin ELSE "",
     acac |-> allow_credentials]

\* ------------------------------------------------------------- middleware
\* How the installed instrumentation package hooks the application: older
\* releases register the tracing middleware with app.add_middleware, newer
\* ones wrap the whole middleware stack when it is built.
Instrumentors == {"add_middleware", "wrap_stack"}

\* Starlette.add_middleware: the middleware added last is the outermost.
add_middleware(um, m) == <<m>> \o um

\* FastAPIInstrumentor.instrument_app(app).
instrument_app_noop(um, mode) == um
instrument_app(um, mode) == IF mode = "add_middleware" THEN add_middleware(um, "otel") ELSE um

build_middleware_stack(um, mode) == IF mode = "wrap_stack" THEN <<"otel">> \o um ELSE um

\* The middleware around the router, outermost first, as lines 43-52 leave it.
app_middleware(mode) ==
    build_middleware_stack(add_middleware(instrument_app(<<>>, mode), "cors"), mode)

\* The router: the two routes registered with @app.get. A route matches on
\* the path and the method; the query string and the headers play no part.
route_rejects_query(q) ==
    CASE q.query # "" -> "404"
      [] q.path = "/health" -> IF q.method = "GET" THEN "health_check" ELSE "405"
      [] q.path = "/version" -> IF q.method = "GET" THEN "version" ELSE "405"
      [] OTHER -> "404"
route(q) ==
    CASE q.path = "/health" -> IF q.method = "GET" THEN "health_check" ELSE "405"
      [] q.path = "/version" -> IF q.method = "GET" THEN "version" ELSE "405"
      [] OTHER -> "404"

\* A request going down the middleware stack: the tracing middleware opens a
\* span; the CORS middleware passes a request without Origin through
\* untouched, answers a preflight itself, and marks any other request for its
\* response headers.
RECURSIVE dispatch(_, _, _)
dispatch(stack, q, acc) ==
    IF stack = <<>> THEN [acc EXCEPT !.target = route(q)]
    ELSE IF Head(stack) = "otel"
         THEN dispatch(Tail(stack), q, [acc EXCEPT !.nspans = @ + 1])
    ELSE IF q.origin = "" THEN dispatch(Tail(stack), q, acc)
    ELSE IF is_preflight(q) THEN [acc EXCEPT !.target = "preflight"]
    ELSE dispatch(Tail(stack), q, [acc EXCEPT !.cors = TRUE])

NoCors == [acao |-> "", acac |-> FALSE]

\* The response of a request, from where dispatch took it.
response(q, d, ver, env) ==
    LET h == IF d.cors THEN simple_headers(q) ELSE NoCors
        plain(st, b) == [status |-> st, body |-> b, acao |-> h.acao, acac |-> h.acac]
    IN  CASE d.target = "preflight" -> preflight_response(q)
          [] d.target = "health_check" -> plain(200, health_check)
          [] d.target = "version" -> plain(200, version(ver, env))
          [] d.target = "405" -> plain(405, [key |-> "detail", val |-> NotAllowed])
          [] OTHER -> plain(404, [key |-> "detail", val |-> NotFound])

\* ------------------------------------------------------------- tracing
\* BatchSpanProcessor.on_end never waits for the collector: the span goes to
\* the bounded queue, or is dropped when the queue is full.
on_end_exports_inline(q, up) == up
on_end_ready(q, up) == TRUE

on_end(q, r) ==
    IF Len(q) < MaxQueueSize
    THEN [queue |-> Append(q, r), span |-> "queued"]
    ELSE [queue |-> q, span |-> "dropped"]

\* ------------------------------------------------------------- inputs
Origin == "https://a.example"

Request(m, p, qs, o, c, a) ==
    [method |-> m, path |-> p, query |-> qs, origin |-> o, cookie |-> c, acrm |-> a]

\* The requests tried: each endpoint with and without Origin, a query string,
\* a cookie, preflights for a routed and an unrouted path, and requests the
\* router rejects.
Requests ==
    { Request("GET", "/health", "", "", FALSE, ""),
      Request("GET", "/health", "x=1", Origin, FALSE, ""),
      Request("GET", "/version", "", "", FALSE, ""),
      Request("GET", "/version", "", Origin, TRUE, ""),
      Request("OPTIONS", "/health", "", Origin, FALSE, "GET"),
      Request("OPTIONS", "/other", "", Origin, FALSE, "GET"),
      Request("POST", "/health", "", Origin, FALSE, ""),
      Request("GET", "/other", "", "", FALSE, "") }

NoReq == [method |-> "", path |-> "", query |-> "", origin |-> "", cookie |-> FALSE, acrm |-> ""]
NoResp == [status |-> 0, body |-> [key |-> "", val |-> <<>>], acao |-> "", acac |-> FALSE]
NoCtx == [target |-> "", cors |-> FALSE, nspans |-> 0, hidx |-> 0, rec |-> <<>>]
Ids == 1..MaxRequests

\* ------------------------------------------------------------- state
VARIABLES
    environ,      \* API_VERSION in the environment
    logsPath,     \* what is at <module dir>/logs after the module ran
    canWrite,     \* whether entries could be created there when it ran
    collectorUp,  \* whether the OTLP collector is reachable
    instrumentor, \* how the installed instrumentation hooks the app
    pid,          \* the running process: 1 or 2, the other one after a restart
    startEnv,     \* API_VERSION in the environment when the module was loaded
    phase,        \* "serving" or "crashed" (the module raised while loading)
    VERSION,      \* the module-level VERSION
    handlers,     \* the root logger's handlers
    middleware,   \* the middleware stack around the router, outermost first
    clock,        \* requests received so far; also the time of day
    req,          \* the request of each id
    pc,           \* where each request is: idle, acquire, emit, respond, done
    ctx,          \* per request: route target, CORS mark, spans opened, log record
    span,         \* per request: none, open, queued, exported, dropped
    resp,         \* the response each request received
    lock,         \* per handler: the request holding its lock, or 0
    console,      \* lines written to the console stream
    logfile,      \* lines written to logs/api-backend.log
    queue         \* the span processor's queue

world == <<environ, logsPath, canWrite, collectorUp, instrumentor>>
process == <<pid, startEnv, phase, VERSION, handlers, middleware>>
requests == <<clock, req, pc, ctx, resp>>
sinks == <<lock, console, logfile>>
tracing == <<span, queue>>
vars == <<world, process, requests, sinks, tracing>>

\* ------------------------------------------------------------- startup
\* Lines 15-52, run when the module is loaded. An exception raised by mkdir
\* or by FileHandler ends the load: nothing after it runs.
startup_falls_back(e, path, w, mode) ==
    LET made == mkdir(path, w)
        opened == made.ok /\ FileHandler(w)
    IN  [VERSION |-> os_getenv(e, Dev),
         logsPath |-> made.path,
         phase |-> "serving",
         handlers |-> IF opened THEN basicConfig ELSE <<"console">>,
         middleware |-> app_middleware(mode)]
startup(e, path, w, mode) ==
    LET made == mkdir(path, w)
        opened == made.ok /\ FileHandler(w)
    IN  [VERSION |-> os_getenv(e, Dev),
         logsPath |-> made.path,
         phase |-> IF opened THEN "serving" ELSE "crashed",
         handlers |-> IF opened THEN basicConfig ELSE <<>>,
         middleware |-> IF opened THEN app_middleware(mode) ELSE <<>>]

Init ==
    /\ environ \in EnvValues
    /\ canWrite \in BOOLEAN
    /\ collectorUp \in BOOLEAN
    /\ instrumentor \in Instrumentors
    /\ \E path \in LogsPaths :
         LET s == startup(environ, path, canWrite, instrumentor) IN
         /\ logsPath = s.logsPath
         /\ phase = s.phase
         /\ VERSION = s.VERSION
         /\ handlers = s.handlers
         /\ middleware = s.middleware
    /\ pid = 1
    /\ startEnv = environ
    /\ clock = 0
    /\ req = [r \in Ids |-> NoReq]
    /\ pc = [r \in Ids |-> "idle"]
    /\ ctx = [r \in Ids |-> NoCtx]
    /\ span = [r \in Ids |-> "none"]
    /\ resp = [r \in Ids |-> NoResp]
    /\ lock = [h \in 1..2 |-> 0]
    /\ console = <<>>
    /\ logfile = <<>>
    /\ queue = <<>>

\* ------------------------------------------------------------- requests
\* Logger.isEnabledFor / callHandlers: a record of level lv is handled when it
\* reaches the root logger's threshold (the handlers themselves have NOTSET).
isEnabledFor(lv) == lv >= INFO /\ lv >= NOTSET

\* Handler.release, at the end of Handler.handle.
release_forgotten(l, h) == l
release(l, h) == [l EXCEPT ![h] = 0]

\* A request arrives and goes down the middleware stack to the router; a
\* handler that is reached calls logger.info, which creates the log record.
Receive(r, q) ==
    /\ phase = "serving"
    /\ pc[r] = "idle"
    /\ r = clock + 1
    /\ clock' = clock + 1
    /\ LET d == dispatch(middleware, q, [target |-> "", cors |-> FALSE, nspans |-> 0])
           handled == d.target \in {"health_check", "version"}
           a == log_args(d.target, VERSION)
           logs == handled /\ isEnabledFor(INFO) /\ handlers # <<>>
       IN  /\ req' = [req EXCEPT ![r] = q]
           /\ ctx' = [ctx EXCEPT ![r] =
                        [target |-> d.target, cors |-> d.cors, nspans |-> d.nspans,
                         hidx |-> IF logs THEN 1 ELSE 0,
                         rec |-> IF logs THEN makeRecord(clock', a.msg, a.extra) ELSE <<>>]]
           /\ span' = [span EXCEPT ![r] = IF d.nspans > 0 THEN "open" ELSE "none"]
           /\ pc' = [pc EXCEPT ![r] = IF logs THEN "acquire" ELSE "respond"]
    /\ UNCHANGED <<world, process, resp, sinks, queue>>

\* Handler.handle: take the handler's lock.
Acquire(r) ==
    /\ pc[r] = "acquire"
    /\ lock[ctx[r].hidx] = 0
    /\ lock' = [lock EXCEPT ![ctx[r].hidx] = r]
    /\ pc' = [pc EXCEPT ![r] = "emit"]
    /\ UNCHANGED <<world, process, clock, req, ctx, resp, console, logfile, tracing>>

\* Handler.handle: emit the formatted record to the handler's stream and
\* release the lock; then on to the next handler, or back to the endpoint.
Emit(r) ==
    /\ pc[r] = "emit"
    /\ LET h == ctx[r].hidx
           line == format(ctx[r].rec)
       IN  /\ IF handlers[h] = "console"
              THEN console' = Append(console, line) /\ UNCHANGED logfile
              ELSE logfile' = Append(logfile, line) /\ UNCHANGED console
           /\ lock' = release(lock, h)
           /\ IF h < Len(handlers)
              THEN /\ ctx' = [ctx EXCEPT ![r].hidx = h + 1]
                   /\ pc' = [pc EXCEPT ![r] = "acquire"]
              ELSE /\ ctx' = ctx
                   /\ pc' = [pc EXCEPT ![r] = "respond"]
    /\ UNCHANGED <<world, process, clock, req, resp, tracing>>

\* The response goes out through the middleware and the request's span ends.
Respond(r) ==
    /\ pc[r] = "respond"
    /\ span[r] = "open" => on_end_ready(queue, collectorUp)
    /\ resp' = [resp EXCEPT ![r] = response(req[r], ctx[r], VERSION, environ)]
    /\ IF span[r] = "open"
       THEN LET e == on_end(queue, r) IN
            /\ queue' = e.queue
            /\ span' = [span EXCEPT ![r] = e.span]
       ELSE UNCHANGED tracing
    /\ pc' = [pc EXCEPT ![r] = "done"]
    /\ UNCHANGED <<world, process, clock, req, ctx, sinks>>

\* ------------------------------------------------------------- background
\* What an export attempt makes of the queued spans.
exported(sp, q, up) ==
    [r \in Ids |-> IF \E i \in 1..Len(q) : q[i] = r
                   THEN (IF up THEN "exported" ELSE "dropped")
                   ELSE sp[r]]

\* The span processor's worker thread exports the queued batch; when the
\* collector cannot be reached the batch is dropped.
Export ==
    /\ phase = "serving"
    /\ queue # <<>>
    /\ span' = exported(span, queue, collectorUp)
    /\ queue' = <<>>
    /\ UNCHANGED <<world, process, requests, sinks>>

\* The collector goes away or comes back.
CollectorFlips ==
    /\ collectorUp' = ~collectorUp
    /\ UNCHANGED <<environ, logsPath, canWrite, instrumentor, process, requests, sinks, tracing>>

\* API_VERSION is changed in the environment.
SetEnv(e) ==
    /\ e # environ
    /\ environ' = e
    /\ UNCHANGED <<logsPath, canWrite, collectorUp, instrumentor, process, requests, sinks, tracing>>

\* The process is stopped once the requests in flight are answered (the
\* queued spans get a last export attempt) and started again: the module is
\* loaded anew against whatever is on disk then. The new process knows
\* nothing of the requests of the old one.
Restart(path, w) ==
    /\ \A r \in Ids : pc[r] \in {"idle", "done"}
    /\ pid' = 3 - pid
    /\ startEnv' = environ
    /\ canWrite' = w
    /\ LET s == startup(environ, path, w, instrumentor) IN
         /\ logsPath' = s.logsPath
         /\ phase' = s.phase
         /\ VERSION' = s.VERSION
         /\ handlers' = s.handlers
         /\ middleware' = s.middleware
    /\ req' = [r \in Ids |-> NoReq]
    /\ pc' = [r \in Ids |-> "idle"]
    /\ ctx' = [r \in Ids |-> NoCtx]
    /\ resp' = [r \in Ids |-> NoResp]
    /\ span' = [r \in Ids |-> "none"]
    /\ queue' = <<>>
    /\ UNCHANGED <<environ, collectorUp, instrumentor, clock, sinks>>

\* A client that sends its next request once the last one is answered.
ReceiveInTurn(r, q) ==
    /\ \A o \in Ids : pc[o] \in {"idle", "done"}
    /\ Receive(r, q)

\* The steps of a request once it is received.
Handle ==
    \/ \E r \in Ids : Acquire(r)
    \/ \E r \in Ids : Emit(r)
    \/ \E r \in Ids : Respond(r)

\* The service through its life: requests one at a time, the environment
\* changed under the running process, the process restarted.
Next ==
    \/ \E r \in Ids, q \in Requests : ReceiveInTurn(r, q)
    \/ Handle
    \/ \E e \in EnvValues : SetEnv(e)
    \/ \E path \in LogsPaths, w \in BOOLEAN : Restart(path, w)

Spec == Init /\ [][Next]_vars

\* A process that started.
InitServing == Init /\ phase = "serving"

\* A running process and its span exporter, the collector coming and going.
NextTracing ==
    \/ \E r \in Ids, q \in Requests : ReceiveInTurn(r, q)
    \/ Handle
    \/ Export
    \/ CollectorFlips

SpecTracing == InitServing /\ [][NextTracing]_vars

\* A process that started, the collector within reach: with no export step the
\* collector plays no part below.
InitConcurrent == InitServing /\ collectorUp

\* A running process under concurrent requests.
NextConcurrent ==
    \/ \E r \in Ids, q \in Requests : Receive(r, q)
    \/ Handle

SpecConcurrent == InitConcurrent /\ [][NextConcurrent]_vars

\* ------------------------------------------------------------- properties
Answered(r) == pc[r] = "done"
IsGet(r, path) == req[r].method = "GET" /\ req[r].path = path
EndpointGet(r) == IsGet(r, "/health") \/ IsGet(r, "/version")
Closed == {"queued", "exported", "dropped"}

\* C1: every answered GET /health has status 200 and the body
\* {"status": "ok"}, whatever its query string and headers and whatever was
\* handled before it.
C1_HealthAlwaysOk ==
    \A r \in Ids :
        Answered(r) /\ IsGet(r, "/health") =>
            /\ resp[r].status = 200
            /\ resp[r].body = [key |-> "status", val |-> <<"o", "k">>]

\* A second request, GET /health with a query string and an Origin header,
\* answered after another request.
C1_Witness ==
    /\ Answered(1) /\ Answered(2)
    /\ IsGet(2, "/health") /\ req[2].query = "x=1" /\ req[2].origin # ""
    /\ resp[2].status = 200

\* C2: every answered GET /version has status 200 and the body
\* {"version": v}, v being the value API_VERSION had when the process
\* started, or "dev" when it was unset then.
C2_VersionFromEnvironment ==
    \A r \in Ids :
        Answered(r) /\ IsGet(r, "/version") =>
            /\ resp[r].status = 200
            /\ resp[r].body.key = "version"
            /\ startEnv.set => resp[r].body.val = startEnv.val
            /\ ~startEnv.set => resp[r].body.val = <<"d", "e", "v">>

\* /version answered by a process started with API_VERSION set to the empty
\* string.
C2_Witness ==
    \E r \in Ids :
        /\ Answered(r) /\ IsGet(r, "/version")
        /\ startEnv.set /\ startEnv.val = <<>>
        /\ resp[r].body.val = <<>>

\* C3: the version is read when the process starts and stays as it is: no step
\* of the running process changes VERSION, whatever happens to API_VERSION in
\* the environment, every /version answer carries it, and a restart makes it
\* the value the environment has then.
C3_VersionFixedUntilRestart ==
    /\ [][pid' = pid => VERSION' = VERSION]_vars
    /\ [][pid' # pid =>
            /\ environ.set => VERSION' = environ.val
            /\ ~environ.set => VERSION' = <<"d", "e", "v">>]_vars
    /\ [](\A r \in Ids : Answered(r) /\ IsGet(r, "/version") => resp[r].body.val = VERSION)

\* /version answered with the startup value after API_VERSION was changed
\* under the running process, itself started by a restart that picked up a
\* new value.
C3_Witness ==
    \E r \in Ids :
        /\ Answered(r) /\ IsGet(r, "/version")
        /\ pid = 2
        /\ environ # startEnv
        /\ resp[r].body.val = <<"1", ".", "2">>
        /\ ~environ.set

\* The handlers' lines each request has had written to the sink of handler h.
Emitted(r, h) ==
    \/ EndpointGet(r) /\ pc[r] \in {"respond", "done"}
    \/ pc[r] \in {"acquire", "emit"} /\ ctx[r].hidx > h

C5_Original ==
    \A r \in Ids : Answered(r) => resp[r].acao = "*"

\* C5: a response to a request with an Origin header carries
\* Access-Control-Allow-Origin and Access-Control-Allow-Credentials; the origin
\* allowed is * for a request that is no preflight and has no Cookie header,
\* and the request's own Origin for a preflight and for a request with a
\* Cookie. A response to a request without Origin carries no CORS header.
C5_CorsHeadersFollowOrigin ==
    \A r \in Ids :
        Answered(r) =>
            LET q == req[r]
                echo == (q.method = "OPTIONS" /\ q.acrm # "") \/ q.cookie
            IN  /\ q.origin = "" => resp[r].acao = "" /\ ~resp[r].acac
                /\ q.origin # "" /\ echo => resp[r].acao = q.origin /\ resp[r].acac
                /\ q.origin # "" /\ ~echo => resp[r].acao = "*" /\ resp[r].acac

\* A preflight for an unrouted path answered with the request's Origin, after
\* a request without Origin answered without CORS headers.
C5_Witness ==
    /\ Answered(1) /\ req[1].origin = "" /\ resp[1].acao = ""
    /\ Answered(2) /\ req[2].method = "OPTIONS" /\ req[2].path = "/other"
    /\ resp[2].acao = Origin /\ resp[2].status = 200

\* C6 as stated: every request received has exactly one span, open until the
\* response completes and closed then; no response without a span.
C6_Original ==
    \A r \in Ids :
        pc[r] # "idle" =>
            /\ ctx[r].nspans = 1
            /\ Answered(r) => span[r] \in Closed
            /\ ~Answered(r) => span[r] = "open"

\* C6: a request that reaches the tracing middleware has exactly one span,
\* opened at entry and closed when its response completes. That is every
\* request when the instrumentation wraps the whole middleware stack; when it
\* registers its middleware with add_middleware, the CORS middleware added
\* after it is outside it, and a preflight CORS answers gets its response
\* without any span.
C6_SpanPerTracedRequest ==
    \A r \in Ids :
        pc[r] # "idle" =>
            LET q == req[r]
                untraced == /\ instrumentor = "add_middleware"
                            /\ q.origin # "" /\ q.method = "OPTIONS" /\ q.acrm # ""
            IN  /\ untraced => ctx[r].nspans = 0 /\ span[r] = "none"
                /\ ~untraced =>
                      /\ ctx[r].nspans = 1
                      /\ Answered(r) => span[r] \in Closed
                      /\ ~Answered(r) => span[r] = "open"

\* A preflight answered without a span, after a request the router rejected
\* whose span was exported.
C6_Witness ==
    /\ Answered(1) /\ resp[1].status = 405 /\ span[1] = "exported"
    /\ Answered(2) /\ req[2].method = "OPTIONS" /\ span[2] = "none"

\* C7: a request about to send its response is never held up by the span
\* processor, whether the collector is reachable or not; every GET of /health
\* and /version is answered 200 with its body; the span queue stays within its
\* capacity, spans that do not fit or cannot be exported being dropped.
C7_TracingNeverBlocksOrFails ==
    /\ \A r \in Ids : pc[r] = "respond" => ENABLED Respond(r)
    /\ \A r \in Ids :
          Answered(r) /\ EndpointGet(r) =>
              /\ resp[r].status = 200
              /\ resp[r].body.val = IF IsGet(r, "/health") THEN <<"o", "k">> ELSE VERSION
    /\ Len(queue) <= MaxQueueSize
    /\ \A r \in Ids : span[r] = "queued" <=> \E i \in 1..Len(queue) : queue[i] = r

\* With the collector down, an endpoint answered 200 whose span was dropped.
C7_Witness ==
    /\ ~collectorUp
    /\ \E r \in Ids :
          Answered(r) /\ EndpointGet(r) /\ resp[r].status = 200 /\ span[r] = "dropped"

\* C8 as stated: the line each answered GET /version wrote to the console
\* and to the file contains the version string of the response.
C8_LogLineHasVersion ==
    \A r \in Ids :
        Answered(r) /\ IsGet(r, "/version") =>
            /\ \E i \in 1..Len(console) :
                  /\ Contains(console[i], asctime(r) \o <<" ">>)
                  /\ Contains(console[i], resp[r].body.val)
            /\ \E i \in 1..Len(logfile) :
                  /\ Contains(logfile[i], asctime(r) \o <<" ">>)
                  /\ Contains(logfile[i], resp[r].body.val)

\* C9: a process whose logs directory or log file could not be created is
\* down: it has no log handlers at all and has received no request; a process
\* that serves has the directory and both handlers.
C9_StartupFailureIsFatal ==
    /\ (logsPath # "dir" \/ ~canWrite) => phase = "crashed"
    /\ phase = "crashed" =>
          /\ handlers = <<>>
          /\ \A r \in Ids : pc[r] = "idle" /\ resp[r] = NoResp
    /\ phase = "serving" =>
          /\ logsPath = "dir" /\ canWrite
          /\ handlers = <<"console", "file">>

\* A restart that found a plain file named "logs", after requests were served.
C9_Witness ==
    /\ phase = "crashed" /\ logsPath = "file" /\ clock > 0 /\ pid = 2

\* The holder of the lock of handler h is writing to it right now.
Writing(o, h) == lock[h] = o /\ pc[o] = "emit" /\ ctx[o].hidx = h

====
